---------------------------- MODULE Spec2Model ----------------------------
(***************************************************************************)
(* A model of whitebox_tools/xarray_io.py: the codec between an in-memory  *)
(* raster (attributes + 2-D grid) and the Whitebox header (.dep) / body    *)
(* (.tas) file pair, and the staging of array parameters around one call   *)
(* of an external Whitebox tool.                                           *)
(*                                                                         *)
(* Python values are modelled as records with disjoint field names:        *)
(*   [w |-> "abc"]            the str "abc"                                *)
(*   [n |-> 5, dot |-> b]     the str "5" (dot = FALSE) or "5.0" (TRUE)    *)
(*   [i |-> 5]                the int 5                                    *)
(*   [f |-> 5]                the float 5.0                                *)
(*   [fraw |-> <<b0,..,b3>>]  a float32 known only by its bit pattern      *)
(*   [none |-> TRUE]          None,   [nan |-> TRUE]  numpy.NaN            *)
(* Paths and other strings the code cuts and joins are sequences of        *)
(* tokens; ".dep", ".tas", "-output", ", " and "/" are tokens of their own.*)
(***************************************************************************)
EXTENDS Integers, Sequences, FiniteSets, TLC

VARIABLES
    pc,               \* position of the caller: which handler runs next
    native,           \* byte order of the machine: "<" or ">"
    files,            \* the file system: path -> content
    kwargs,           \* the parameter mapping, in call order
    load_afterwards,  \* closure variable of xarray_whitebox_io
    fnames,           \* closure variable of xarray_whitebox_io
    staged,           \* every path data_array_to_dep has written in this call
    tool,             \* what the external tool was called with and returned
    ret,              \* what the last handler returned or raised
    arg               \* the inputs of the call under check

vars == <<pc, native, files, kwargs, load_afterwards, fnames,
          staged, tool, ret, arg>>

-----------------------------------------------------------------------------
(* Python values *)

None == [none |-> TRUE]
NaN == [nan |-> TRUE]
W(s) == [w |-> s]
Num(k, d) == [n |-> k, dot |-> d]
I(k) == [i |-> k]
F(k) == [f |-> k]

IsWord(v) == DOMAIN v = {"w"}
IsNumeral(v) == DOMAIN v = {"n", "dot"}
IsStr(v) == IsWord(v) \/ IsNumeral(v)
IsInt(v) == DOMAIN v = {"i"}
IsFloat(v) == DOMAIN v = {"f"}
IsNone(v) == DOMAIN v = {"none"}

\* Python's ==: an int and a float of the same value are equal.
PyEq(a, b) ==
    IF (IsInt(a) \/ IsFloat(a)) /\ (IsInt(b) \/ IsFloat(b))
    THEN (IF IsInt(a) THEN a.i ELSE a.f) = (IF IsInt(b) THEN b.i ELSE b.f)
    ELSE a = b

NumOf(v) == IF IsInt(v) THEN v.i ELSE v.f

\* Python's truth value of the values modelled.
Truthy(v) ==
    CASE IsNone(v) -> FALSE
      [] IsWord(v) -> v.w # ""
      [] IsInt(v) -> v.i # 0
      [] IsFloat(v) -> v.f # 0
      [] OTHER -> TRUE

\* str(v) and '{}'.format(v)
PyStr(v) ==
    CASE IsInt(v) -> Num(v.i, FALSE)
      [] IsFloat(v) -> Num(v.f, TRUE)
      [] IsNone(v) -> W("None")
      [] OTHER -> v

\* The words of the model with their lower-case and upper-case forms.
WordTable == {
    <<"", "", "">>,
    <<"continuous", "continuous", "CONTINUOUS">>,
    <<"Continuous", "continuous", "CONTINUOUS">>,
    <<"CONTINUOUS", "continuous", "CONTINUOUS">>,
    <<"categorical", "categorical", "CATEGORICAL">>,
    <<"CATEGORICAL", "categorical", "CATEGORICAL">>,
    <<"boolean", "boolean", "BOOLEAN">>,
    <<"Boolean", "boolean", "BOOLEAN">>,
    <<"BOOLEAN", "boolean", "BOOLEAN">>,
    <<"rgb", "rgb", "RGB">>,
    <<"RGB", "rgb", "RGB">>,
    <<"Rgb", "rgb", "RGB">>,
    <<"nominal", "nominal", "NOMINAL">>,
    <<"NOMINAL", "nominal", "NOMINAL">>,
    <<"m", "m", "M">>,
    <<"M", "m", "M">>,
    <<"float", "float", "FLOAT">>,
    <<"FLOAT", "float", "FLOAT">>,
    <<"integer", "integer", "INTEGER">>,
    <<"INTEGER", "integer", "INTEGER">>,
    <<"float32", "float32", "FLOAT32">>,
    <<"float64", "float64", "FLOAT64">>,
    <<"int16", "int16", "INT16">>,
    <<"int64", "int64", "INT64">>,
    <<"LITTLE_ENDIAN", "little_endian", "LITTLE_ENDIAN">>,
    <<"BIG_ENDIAN", "big_endian", "BIG_ENDIAN">>,
    <<"high_relief.pal", "high_relief.pal", "HIGH_RELIEF.PAL">>,
    <<"HIGH_RELIEF.PAL", "high_relief.pal", "HIGH_RELIEF.PAL">>,
    <<"spectrum.pal", "spectrum.pal", "SPECTRUM.PAL">>,
    <<"SPECTRUM.PAL", "spectrum.pal", "SPECTRUM.PAL">>,
    <<"None", "none", "NONE">>,
    <<"NONE", "none", "NONE">>,
    <<"note", "note", "NOTE">>,
    <<"NOTE", "note", "NOTE">>
}

\* str.lower() and str.upper(); a numeral has no letters.
PyLower(v) == IF IsWord(v) THEN W((CHOOSE e \in WordTable : e[1] = v.w)[2]) ELSE v
PyUpper(v) == IF IsWord(v) THEN W((CHOOSE e \in WordTable : e[1] = v.w)[3]) ELSE v

\* 'float' in s.lower()
ContainsFloat(v) == IsWord(v) /\ PyLower(v).w \in {"float", "float32", "float64"}

-----------------------------------------------------------------------------
(* Dictionaries whose order the code never reads: functions on their keys *)

Has(d, k) == k \in DOMAIN d
Put(d, k, v) == [x \in (DOMAIN d) \cup {k} |-> IF x = k THEN v ELSE d[x]]
Get(d, k) == IF k \in DOMAIN d THEN d[k] ELSE None
EmptyDict == [x \in {} |-> None]

\* The element of a one-element set. {e(x) : x \in {v}} names the value v
\* once, so that e reads it without computing it again.
Only(S) == CHOOSE x \in S : TRUE

-----------------------------------------------------------------------------
(* Module constants *)

INPUT_ARGS == {"input", "inputs", "i", "pour_pts", "d8_pntr"}
OUTPUT_ARGS == {"output", "outputs", "o"}

\* The temp directory the process resolved at import.
WHITEBOX_TEMP_DIR == <<"/", "tmp">>

OK_DATA_SCALES == {W("continuous"), W("categorical"), W("Boolean"), W("rgb")}

OPTIONAL_DEP_FIELDS == {"display_min", "display_max", "metadata_entry",
                        "projection", "preferred_palette",
                        "palette_nonlinearity", "byte_order", "nodata"}
REQUIRED_DEP_FIELDS == {"max", "min", "north", "south", "east", "west",
                        "cols", "rows", "dtype", "z_units", "xy_units",
                        "data_scale"}
FLOAT_DEP_FIELDS == {"Min", "Max", "North", "South", "East", "West",
                     "Display Min", "Display Max"}
INT_DEP_FIELDS == {"Cols", "Rows", "Stacks"}
UPPER_STR_FIELDS == {"Data Type", "Byte Order"}

-----------------------------------------------------------------------------
(* case_insensitive_attrs *)

\* '_'.join(k.lower().split()) on the attribute names of the model
_lower_key(k) ==
    CASE k \in {"Data Scale", "DATA_SCALE", "data scale"} -> "data_scale"
      [] k \in {"Palette Nonlinearity", "PALETTE_NONLINEARITY"} -> "palette_nonlinearity"
      [] k \in {"Preferred Palette"} -> "preferred_palette"
      [] k \in {"Units", "UNITS"} -> "units"
      [] k \in {"Min", "MIN"} -> "min"
      [] OTHER -> k

\* for k, v in attrs.items(): lower[_lower_key(k)] = v
RECURSIVE LowerAll(_, _)
LowerAll(lower, items) ==
    IF items = <<>> THEN lower
    ELSE Only({LowerAll(l1, rest) :
                 l1 \in {Put(lower, _lower_key(items[1][1]), items[1][2])},
                 rest \in {Tail(items)}})

Raise(e) == [err |-> e, val |-> None]
Return(v) == [err |-> "", val |-> v]

FillOptional(lower) ==
    [k \in (DOMAIN lower) \cup OPTIONAL_DEP_FIELDS |->
        IF k \in DOMAIN lower THEN lower[k] ELSE W("")]

\* lines 104-107: the two palette defaults, in the order the code applies them
PaletteDefaults(lower) ==
    Only({IF ~Has(l1, "palette_nonlinearity")
          THEN Put(l1, "palette_nonlinearity", F(1))
          ELSE l1 :
            l1 \in {IF ~Has(lower, "preferred_palette")
                    THEN Put(lower, "palette_nonlinearity", W("high_relief.pal"))
                    ELSE lower}})

UnitDefaults(lower) ==
    Only({IF ~Has(l1, "z_units") /\ Has(l1, "units")
          THEN Put(l1, "z_units", l1["units"]) ELSE l1 :
            l1 \in {IF ~Has(lower, "xy_units") /\ Has(lower, "units")
                    THEN Put(lower, "xy_units", lower["units"]) ELSE lower}})

\* lines 109-122, on the dictionary the defaults have been applied to
CheckAttrs(lower1) ==
    LET raw == IF Truthy(Get(lower1, "data_scale"))
               THEN lower1["data_scale"] ELSE W("")
        data_scale == PyLower(raw)
    IN  IF ~(REQUIRED_DEP_FIELDS \subseteq DOMAIN lower1)
        THEN Raise("ValueError")
        ELSE IF ~IsStr(raw)
        THEN Raise("AttributeError")
        ELSE IF data_scale \notin OK_DATA_SCALES
        THEN Raise("ValueError")
        ELSE IF data_scale = W("rgb")
        THEN Raise("NotImplementedError")
        ELSE Return(FillOptional(lower1))

case_insensitive_attrs(attrs, typ) ==
    Only({CheckAttrs(lower1) :
            lower1 \in {PaletteDefaults(UnitDefaults(
                          LowerAll([k \in {"dtype"} |-> W(typ)], attrs)))}})

-----------------------------------------------------------------------------
(* Token strings: paths and comma-joined lists of paths *)

Last(s) == s[Len(s)]
Front(s) == SubSeq(s, 1, Len(s) - 1)

\* s.split(', ')
RECURSIVE SplitOn(_, _, _)
SplitOn(s, sep, cur) ==
    IF s = <<>> THEN <<cur>>
    ELSE IF s[1] = sep THEN <<cur>> \o SplitOn(Tail(s), sep, <<>>)
    ELSE SplitOn(Tail(s), sep, Append(cur, s[1]))
Split(s) == SplitOn(s, ", ", <<>>)

\* ', '.join(parts)
RECURSIVE Join(_)
Join(parts) ==
    IF parts = <<>> THEN <<>>
    ELSE IF Len(parts) = 1 THEN parts[1]
    ELSE parts[1] \o <<", ">> \o Join(Tail(parts))

\* s.replace('.dep', '-output.dep'): every occurrence is replaced
RECURSIVE ReplaceDep(_)
ReplaceDep(s) ==
    IF s = <<>> THEN <<>>
    ELSE (IF s[1] = ".dep" THEN <<"-output", ".dep">> ELSE <<s[1]>>)
         \o ReplaceDep(Tail(s))

EndsWithDep(s) == s # <<>> /\ Last(s) = ".dep"

\* The working directory of the process.
CurDir == <<"/", "cwd">>

\* os.path.abspath(os.path.join(os.curdir, path)) for one path
AbsPath(path) ==
    IF path # <<>> /\ path[1] = "/" THEN path
    ELSE IF path = <<>> THEN CurDir
    ELSE CurDir \o <<"/">> \o path

RECURSIVE MapAbs(_)
MapAbs(paths) ==
    IF paths = <<>> THEN <<>> ELSE <<AbsPath(paths[1])>> \o MapAbs(Tail(paths))

fix_path(path) == Join(MapAbs(Split(path)))

-----------------------------------------------------------------------------
(* Sample encodings *)

\* The float32 bit patterns (little-endian bytes) of the floats of the model.
F4Table == {
    <<0, <<0, 0, 0, 0>>>>,
    <<1, <<0, 0, 128, 63>>>>,
    <<2, <<0, 0, 0, 64>>>>,
    <<-9999, <<0, 60, 28, 198>>>>,
    <<16777216, <<0, 0, 128, 75>>>>
}

Reverse(s) == [k \in 1..Len(s) |-> s[Len(s) + 1 - k]]

\* astype('<f4') of an integral float64: exact up to 2^24, then to the nearest
\* even mantissa (the model holds no value beyond 2^25).
F4Round(k) ==
    IF k >= -16777216 /\ k <= 16777216 THEN k
    ELSE IF k % 2 = 0 THEN k
    ELSE IF (k + 1) % 4 = 0 THEN k + 1 ELSE k - 1

\* astype('<i2') of an integer: kept modulo 2^16, signed
Wrap16(k) ==
    LET m == k % 65536 IN IF m >= 32768 THEN m - 65536 ELSE m

Astype(cell, dtype) ==
    IF dtype = "f4"
    THEN (IF IsFloat(cell) THEN F(F4Round(cell.f)) ELSE F(F4Round(cell.i)))
    ELSE (IF IsInt(cell) THEN I(Wrap16(cell.i)) ELSE I(Wrap16(cell.f)))

\* The bytes of one sample in byte order `order` ("<" or ">").
SampleBytes(cell, dtype, order) ==
    LET le == IF dtype = "f4"
              THEN (CHOOSE e \in F4Table : e[1] = cell.f)[2]
              ELSE LET m == cell.i % 65536 IN <<m % 256, m \div 256>>
    IN  IF order = "<" THEN le ELSE Reverse(le)

\* The sample that `bytes` hold when read in byte order `order`.
SampleOf(bytes, dtype, order) ==
    LET le == IF order = "<" THEN bytes ELSE Reverse(bytes)
    IN  IF dtype = "f4"
        THEN (IF \E e \in F4Table : e[2] = le
              THEN F((CHOOSE e \in F4Table : e[2] = le)[1])
              ELSE [fraw |-> le])
        ELSE I(Wrap16(le[1] + 256 * le[2]))

Width(dtype) == IF dtype = "f4" THEN 4 ELSE 2

RECURSIVE Flatten(_)
Flatten(rows) == IF rows = <<>> THEN <<>> ELSE rows[1] \o Flatten(Tail(rows))

-----------------------------------------------------------------------------
(* to_tas, _from_dep, _get_dtype, from_dep, data_array_to_dep *)

DTYPES == [k \in {"float", "integer"} |-> IF k = "float" THEN "f4" ELSE "i2"]
ENDIAN == [k \in {W("LITTLE_ENDIAN"), W("BIG_ENDIAN")} |->
              IF k = W("LITTLE_ENDIAN") THEN "<" ELSE ">"]

_get_dtype(dtype_str) ==
    IF ContainsFloat(dtype_str) THEN <<"float", DTYPES["float"]>>
    ELSE <<"integer", DTYPES["integer"]>>

\* struct.pack(abbrev * c, *vals[i, :]) for every row: native byte order
to_tas(vals, typ_str, order) ==
    LET dtype == DTYPES[typ_str]
        cells == Flatten(vals)
    IN  Flatten([k \in 1..Len(cells) |-> SampleBytes(cells[k], dtype, order)])

\* key.strip().title() on the header keys of the model
Title(key) ==
    CASE key \in {"NoData", "NODATA", "nodata"} -> "Nodata"
      [] key \in {"BYTE ORDER", "byte order"} -> "Byte Order"
      [] OTHER -> key

\* int(value) and float(value) of a header value
PyInt(v) == IF IsNumeral(v) /\ ~v.dot THEN Return(I(v.n)) ELSE Raise("ValueError")
PyFloat(v) == IF IsNumeral(v) THEN Return(F(v.n)) ELSE Raise("ValueError")

\* attrs[key] += '\n' + value
MultiLine(a, b) == [ml |-> (IF DOMAIN a = {"ml"} THEN a.ml ELSE <<a>>) \o <<b>>]

\* A header is the sequence of its lines, each already cut at its first colon:
\* [key |-> text before it, val |-> the stripped rest].
RECURSIVE FromDepLines(_, _)
FromDepLines(attrs, lines) ==
    IF lines = <<>> THEN Return(attrs)
    ELSE
      LET key == Title(lines[1].key)
          raw == lines[1].val
          conv == IF key \in INT_DEP_FIELDS THEN PyInt(raw)
                  ELSE IF key \in FLOAT_DEP_FIELDS THEN PyFloat(raw)
                  ELSE IF key \notin UPPER_STR_FIELDS THEN Return(PyUpper(raw))
                  ELSE Return(raw)
      IN  IF conv.err # "" THEN conv
          ELSE Only({FromDepLines(a1, rest) :
                 a1 \in {IF key = "Metadata Entry" /\ Has(attrs, key)
                         THEN Put(attrs, key, MultiLine(attrs[key], conv.val))
                         ELSE Put(attrs, key, conv.val)},
                 rest \in {Tail(lines)}})

_from_dep(content) == FromDepLines(EmptyDict, content)

\* np.fromfile(tas, dtype=dtype) followed by val.resize(rows, cols)
FromFile(bytes, dtype, order, rows, cols) ==
    LET w == Width(dtype)
        cnt == Len(bytes) \div w
        flat == [k \in 1..cnt |->
                    SampleOf(SubSeq(bytes, (k - 1) * w + 1, k * w), dtype, order)]
        zero == IF dtype = "f4" THEN F(0) ELSE I(0)
    IN  [r \in 1..rows |-> [c \in 1..cols |->
            LET k == (r - 1) * cols + c
            IN  IF k <= cnt THEN flat[k] ELSE zero]]

\* lines 186-197, on the attributes _from_dep returned; the coordinates x and
\* y are derived from the attributes alone and are left out.
FromParsed(fs, dep, tas, order, attrs) ==
    IF ~Has(attrs, "Data Type") THEN Raise("AttributeError")
    ELSE
      LET dtype == _get_dtype(attrs["Data Type"])[2]
          byte_order == Get(attrs, "byte_order")
          ord == IF byte_order \in DOMAIN ENDIAN
                 THEN ENDIAN[byte_order] ELSE order
      IN  IF ~Has(attrs, "Rows") \/ ~Has(attrs, "Cols")
          THEN Raise("KeyError")
          ELSE Return([dtype |-> dtype,
                       values |-> FromFile(fs[tas], dtype, ord,
                                           attrs["Rows"].i, attrs["Cols"].i),
                       attrs |-> Put(attrs, "filename", [pair |-> <<dep, tas>>])])

from_dep(fs, dep, order) ==
    IF dep = <<>> \/ dep \notin DOMAIN fs THEN Raise("ValueError")
    ELSE
      LET tas == IF EndsWithDep(dep) THEN Front(dep) \o <<".tas">> ELSE <<>>
      IN  IF tas = <<>> \/ tas \notin DOMAIN fs THEN Raise("ValueError")
          ELSE Only({IF parsed.err # "" THEN parsed
                     ELSE FromParsed(fs, dep, tas, order, parsed.val) :
                       parsed \in {_from_dep(fs[dep])}})

\* DEP_TEMPLATE.format(**at): the header's lines in the template's order
DEP_TEMPLATE == <<
    <<"Min", "min">>, <<"Max", "max">>, <<"North", "north">>,
    <<"South", "south">>, <<"East", "east">>, <<"West", "west">>,
    <<"Cols", "cols">>, <<"Rows", "rows">>, <<"Stacks", "stacks">>,
    <<"Data Type", "dtype">>, <<"Z Units", "z_units">>,
    <<"Xy Units", "xy_units">>, <<"Projection", "projection">>,
    <<"Data Scale", "data_scale">>, <<"Display Min", "display_min">>,
    <<"Display Max", "display_max">>,
    <<"Preferred Palette", "preferred_palette">>,
    <<"Palette Nonlinearity", "palette_nonlinearity">>,
    <<"Nodata", "nodata">>, <<"Byte Order", "byte_order">> >>

\* '\nMetadata Entry: {}'.format(m) for m in metadata_entry.splitlines()
MetadataLines(metadata_entry) ==
    IF metadata_entry = W("") THEN <<>>
    ELSE << [key |-> "", val |-> W("")],
            [key |-> "Metadata Entry", val |-> metadata_entry] >>

FormatDep(at) ==
    [k \in 1..Len(DEP_TEMPLATE) |->
        [key |-> DEP_TEMPLATE[k][1], val |-> PyStr(at[DEP_TEMPLATE[k][2]])]]
    \o MetadataLines(at["metadata_entry"])

WriteFile(fs, path, content) ==
    [p \in (DOMAIN fs) \cup {path} |-> IF p = path THEN content ELSE fs[p]]

\* The result carries the file system the call leaves behind.
\* WriteDep without the call of to_tas: the header is written, the body is not.
WriteDep_HeaderOnly(fs, temp, order, arr, tag, lower) ==
    LET fname == temp \o <<"/", tag>>
        dep == fname \o <<".dep">>
        tas == fname \o <<".tas">>
    IN  Only({
          IF arr.ndim # 2
          THEN [err |-> "NotImplementedError", val |-> None, fs |-> fs]
          ELSE IF ~IsInt(Get(attrs, "stacks")) /\ ~IsFloat(Get(attrs, "stacks"))
          THEN [err |-> "TypeError", val |-> None, fs |-> fs]
          ELSE IF NumOf(attrs["stacks"]) > 1
          THEN [err |-> "NotImplementedError", val |-> None, fs |-> fs]
          ELSE [err |-> "", val |-> <<dep, tas>>,
                fs |-> WriteFile(fs, dep, FormatDep(attrs))] :
          attrs \in {Put(lower, "byte_order", W("LITTLE_ENDIAN"))}})

\* lines 206-220, on the attributes case_insensitive_attrs returned
WriteDep(fs, temp, order, arr, tag, lower) ==
    LET dt == _get_dtype(W(arr.dtype))
        val == [r \in 1..Len(arr.values) |->
                  [c \in 1..Len(arr.values[r]) |-> Astype(arr.values[r][c], dt[2])]]
        fname == temp \o <<"/", tag>>
        dep == fname \o <<".dep">>
        tas == fname \o <<".tas">>
    IN  Only({
          IF arr.ndim # 2
          THEN [err |-> "NotImplementedError", val |-> None, fs |-> fs]
          ELSE IF ~IsInt(Get(attrs, "stacks")) /\ ~IsFloat(Get(attrs, "stacks"))
          THEN [err |-> "TypeError", val |-> None, fs |-> fs]
          ELSE IF NumOf(attrs["stacks"]) > 1
          THEN [err |-> "NotImplementedError", val |-> None, fs |-> fs]
          ELSE [err |-> "", val |-> <<dep, tas>>,
                fs |-> Only({WriteFile(fs1, tas, to_tas(val, dt[1], order)) :
                               fs1 \in {WriteFile(fs, dep, FormatDep(attrs))}})] :
          attrs \in {Put(lower, "byte_order", W("LITTLE_ENDIAN"))}})

\* The result carries the file system the call leaves behind.
data_array_to_dep(fs, temp, order, arr, tag) ==
    Only({IF norm.err # "" THEN [err |-> norm.err, val |-> None, fs |-> fs]
          ELSE WriteDep(fs, temp, order, arr, tag, norm.val) :
            norm \in {case_insensitive_attrs(arr.attrs, _get_dtype(W(arr.dtype))[1])}})

-----------------------------------------------------------------------------
(* _assign_nodata, assign_nodata *)

_assign_nodata(arr, no_data) ==
    LET wide == [r \in 1..Len(arr.values) |-> [c \in 1..Len(arr.values[r]) |->
                   IF arr.dtype = "i2" /\ IsInt(arr.values[r][c])
                   THEN F(arr.values[r][c].i) ELSE arr.values[r][c]]]
    IN  [arr EXCEPT
            !.dtype = IF arr.dtype = "i2" THEN "f8" ELSE arr.dtype,
            !.values = [r \in 1..Len(wide) |-> [c \in 1..Len(wide[r]) |->
                          IF PyEq(wide[r][c], no_data) THEN NaN ELSE wide[r][c]]]]

\* dset is the Dataset's data variables, name -> DataArray; dep the keyword
\* arguments of the call.
assign_nodata(dset, dep) ==
    LET no_data == Get(dep, "Nodata")
    IN  IF IsNone(no_data) THEN dset
        ELSE [k \in DOMAIN dset |-> _assign_nodata(dset[k], no_data)]

-----------------------------------------------------------------------------
(* Dictionaries whose order the code reads: sequences of <<key, value>> *)

OKeys(d) == {d[k][1] : k \in 1..Len(d)}
OHas(d, key) == key \in OKeys(d)
OGet(d, key) == d[CHOOSE k \in 1..Len(d) : d[k][1] = key][2]
OPut(d, key, v) ==
    IF OHas(d, key)
    THEN [k \in 1..Len(d) |-> IF d[k][1] = key THEN <<key, v>> ELSE d[k]]
    ELSE Append(d, <<key, v>>)
ODel(d, key) == SelectSeq(d, LAMBDA e : e[1] # key)

-----------------------------------------------------------------------------
(* xarray_whitebox_io *)

StrVal(s) == [kind |-> "str", s |-> s]
ArrVal(a) == [kind |-> "arr", a |-> a]
DsetVal(vs) == [kind |-> "dset", vars |-> vs]
BoolVal(b) == [kind |-> "bool", b |-> b]

\* lines 239-243: for k2 in v.data_vars, stage the member and record its pair
RECURSIVE StageMembers(_, _, _, _, _)
StageMembers(st, temp, order, k, members) ==
    IF members = <<>> \/ st.err # "" THEN st
    ELSE Only({
           IF r.err # "" THEN [st EXCEPT !.err = r.err]
           ELSE Only({StageMembers(s1, temp, order, k, rest) :
                  s1 \in {[st EXCEPT !.fs = r.fs,
                                     !.staged = @ \o <<r.val[1], r.val[2]>>,
                                     !.fnames = OPut(@, <<k, members[1][1]>>, r.val)]},
                  rest \in {Tail(members)}}) :
           r \in {data_array_to_dep(st.fs, temp, order, members[1][2],
                                    members[1][1])}})

\* lines 244-245: the header paths of the members recorded under k
DepsOf(fn, k) ==
    LET sel == SelectSeq(fn, LAMBDA e : e[1][1] = k)
    IN  Join([j \in 1..Len(sel) |-> sel[j][2][1]])

\* lines 235-251 for a single array: the pair is not recorded in fnames
StageArray(st, temp, order, k, arr) ==
    Only({IF r.err # "" THEN [st EXCEPT !.err = r.err]
          ELSE [st EXCEPT !.fs = r.fs,
                          !.staged = @ \o <<r.val[1], r.val[2]>>,
                          !.kwargs = OPut(@, k, StrVal(r.val[1])),
                          !.dumped = k] :
            r \in {data_array_to_dep(st.fs, temp, order, arr, k)}})

\* lines 229-254: one turn of the loop over kwargs.items()
StageParam(st, temp, order, k, v) ==
    IF k \in INPUT_ARGS THEN
        IF v.kind = "str" THEN [st EXCEPT !.kwargs = OPut(@, k, StrVal(fix_path(v.s)))]
        ELSE IF v.kind = "dset" THEN
            IF k = "input" THEN [st EXCEPT !.err = "ValueError"]
            ELSE Only({IF s1.err # "" THEN s1
                       ELSE [s1 EXCEPT
                               !.kwargs = OPut(@, k, StrVal(DepsOf(s1.fnames, k))),
                               !.dumped = k] :
                         s1 \in {StageMembers(st, temp, order, k, v.vars)}})
        ELSE IF v.kind = "arr" THEN StageArray(st, temp, order, k, v.a)
        ELSE st
    ELSE IF k \in OUTPUT_ARGS THEN
        IF v.kind = "str"
        THEN [st EXCEPT !.load_afterwards = OPut(@, k, fix_path(v.s))]
        ELSE [st EXCEPT !.err = "AttributeError"]
    ELSE st

RECURSIVE StageLoop(_, _, _, _)
StageLoop(st, temp, order, items) ==
    IF items = <<>> \/ st.err # "" THEN st
    ELSE Only({StageLoop(s1, temp, order, rest) :
                 s1 \in {[StageParam(st, temp, order, items[1][1], items[1][2])
                             EXCEPT !.k = items[1][1]]},
                 rest \in {Tail(items)}})

\* lines 255-257: the default output
DefaultOutput(st) ==
    IF st.err = "" /\ st.load_afterwards = <<>> /\ st.dumped # ""
    THEN LET output_fname == ReplaceDep(OGet(st.kwargs, st.dumped).s)
         IN  [st EXCEPT !.load_afterwards = OPut(@, st.k, output_fname),
                        !.kwargs = OPut(@, "output", StrVal(output_fname))]
    ELSE st

\* The whole of xarray_whitebox_io on the parameters kw.
xarray_whitebox_io(fs, temp, order, kw) ==
    LET delete_tempdir == IF OHas(kw, "delete_tempdir")
                          THEN OGet(kw, "delete_tempdir").b ELSE TRUE
        kw1 == ODel(kw, "delete_tempdir")
        st0 == [kwargs |-> kw1, load_afterwards |-> <<>>, fnames |-> <<>>,
                dumped |-> "", fs |-> fs, staged |-> <<>>, err |-> "", k |-> "",
                delete_tempdir |-> delete_tempdir]
    IN  Only({DefaultOutput(st) :
                st \in {Only({StageLoop(s0, temp, order, items) :
                                s0 \in {st0}, items \in {kw1}})}})

-----------------------------------------------------------------------------
(* delayed_load_later *)

\* lines 264-269: data_arrs[k] = from_dep(path) for every path of every output
RECURSIVE LoadPaths(_, _, _, _, _, _)
LoadPaths(acc, fs, order, k, paths, attrs) ==
    IF paths = <<>> \/ acc.err # "" THEN acc
    ELSE Only({
           IF r.err # "" THEN [acc EXCEPT !.err = r.err]
           ELSE Only({LoadPaths(a1, fs, order, k, rest, attrs) :
                  a1 \in {[acc EXCEPT !.data_arrs =
                             Put(@, k, [r.val EXCEPT !.attrs =
                                   Only({Put(a2, "return_code", attrs.return_code) :
                                          a2 \in {Put(@, "kwargs", attrs.kwargs)}})])]},
                  rest \in {Tail(paths)}}) :
           r \in {from_dep(fs, paths[1], order)}})

RECURSIVE LoadAll(_, _, _, _, _)
LoadAll(acc, fs, order, la, attrs) ==
    IF la = <<>> \/ acc.err # "" THEN acc
    ELSE Only({LoadAll(a1, fs, order, rest, attrs) :
                 a1 \in {[Only({LoadPaths(acc, fs, order, la[1][1], paths, attrs) :
                                  paths \in {Split(la[1][2])}})
                            EXCEPT !.k = la[1][1]]},
                 rest \in {Tail(la)}})

\* lines 271-273: os.remove of each recorded header and body, in order
RECURSIVE RemoveAll(_, _)
RemoveAll(st, paths) ==
    IF paths = <<>> \/ st.err # "" THEN st
    ELSE IF paths[1] \notin DOMAIN st.fs
    THEN [st EXCEPT !.err = "FileNotFoundError"]
    ELSE Only({RemoveAll(s1, rest) :
                 s1 \in {[st EXCEPT !.fs = [p \in (DOMAIN @) \ {paths[1]} |-> @[p]]]},
                 rest \in {Tail(paths)}})

FnamePaths(fn) == Flatten([j \in 1..Len(fn) |-> fn[j][2]])

\* The result carries the file system the call leaves behind.
delayed_load_later(fs, order, kw, la, fn, ret_val) ==
    IF la = <<>> THEN [err |-> "", val |-> [code |-> ret_val], fs |-> fs]
    ELSE
      Only({
        IF loaded.err # "" THEN [err |-> loaded.err, val |-> None, fs |-> fs]
        ELSE Only({
               IF removed.err # ""
               THEN [err |-> removed.err, val |-> None, fs |-> removed.fs]
               ELSE IF Len(la) = 1
               THEN [err |-> "", val |-> [arr |-> dset[loaded.k]], fs |-> removed.fs]
               ELSE [err |-> "", val |-> [dset |-> dset], fs |-> removed.fs] :
               dset \in {assign_nodata(loaded.data_arrs, EmptyDict)},
               removed \in {Only({RemoveAll(s0, paths) :
                                    s0 \in {[fs |-> fs, err |-> ""]},
                                    paths \in {FnamePaths(fn)}})}}) :
        loaded \in {Only({LoadAll(a0, fs, order, la, attrs) :
                            a0 \in {[data_arrs |-> EmptyDict, err |-> "", k |-> ""]},
                            attrs \in {[kwargs |-> [kw |-> kw],
                                        return_code |-> I(ret_val)]}})}})

-----------------------------------------------------------------------------
(* Bounds and inputs *)

MaxParams == 2      \* parameters of one call, delete_tempdir apart

NoFiles == [p \in {} |-> <<>>]
NotCalled == [called |-> FALSE]

\* Attributes with every field the header template names.
FullAttrs == <<
    <<"min", F(0)>>, <<"max", F(10)>>, <<"north", F(5)>>, <<"south", F(0)>>,
    <<"east", F(0)>>, <<"west", F(5)>>, <<"cols", I(2)>>, <<"rows", I(1)>>,
    <<"stacks", I(1)>>, <<"z_units", W("M")>>, <<"xy_units", W("M")>>,
    <<"data_scale", W("continuous")>>, <<"display_min", F(0)>>,
    <<"display_max", F(10)>>, <<"nodata", I(-9999)>> >>

Without(attrs, keys) == SelectSeq(attrs, LAMBDA e : e[1] \notin keys)

\* The arrays a call stages: one that encodes, one whose attributes lack stacks.
OrchArrays == {
    [dtype |-> "float32", ndim |-> 2, values |-> <<<<F(1), F(-9999)>>>>,
     attrs |-> FullAttrs],
    [dtype |-> "float32", ndim |-> 2, values |-> <<<<F(1), F(-9999)>>>>,
     attrs |-> Without(FullAttrs, {"stacks"})] }

\* The names of a Dataset's data variables; "i" is also a parameter name.
VarNames == {"a", "i"}

\* Sequences of at most n pairs <<key, value>> with distinct keys of `keys`,
\* the value of key k drawn from vals[k].
RECURSIVE Items(_, _, _)
Items(keys, vals, n) ==
    IF n = 0 THEN {<<>>}
    ELSE {<<>>} \cup
         UNION {{<<(<<k, v>>)>> \o rest : v \in vals[k],
                                         rest \in Items(keys \ {k}, vals, n - 1)}
                : k \in keys}

\* The Datasets: every order of every choice of names, over one array.
Datasets ==
    {DsetVal(vs) : vs \in UNION {Items(VarNames, [k \in VarNames |-> {a}],
                                       Cardinality(VarNames)) : a \in OrchArrays}}

InputValues ==
    {StrVal(<<"dem", ".dep">>)} \cup {ArrVal(a) : a \in OrchArrays} \cup Datasets
OutputValues == {StrVal(<<"out", ".dep">>), StrVal(<<"/", "data", "/", "out", ".dep">>)}

ParamKeys == {"input", "inputs", "i", "output", "o"}
ParamValues == [k \in ParamKeys |->
                   IF k \in INPUT_ARGS THEN InputValues ELSE OutputValues]

CallKwargs ==
    {opt \o kw : opt \in {<<>>, <<(<<"delete_tempdir", BoolVal(FALSE)>>)>>},
                 kw \in Items(ParamKeys, ParamValues, MaxParams) \ {<<>>}}

Line(k, v) == [key |-> k, val |-> v]

\* What the external tool may leave at an output path: a header and a body.
ToolHeader(dtype, nodata) ==
    << Line("Min", Num(-9999, TRUE)), Line("Max", Num(2, TRUE)),
       Line("North", Num(5, TRUE)), Line("South", Num(0, TRUE)),
       Line("East", Num(0, TRUE)), Line("West", Num(5, TRUE)),
       Line("Cols", Num(2, FALSE)), Line("Rows", Num(1, FALSE)),
       Line("Data Type", W(dtype)), Line("Z Units", W("m")),
       Line("Xy Units", W("m")), Line("Data Scale", W("continuous")) >>
    \o nodata \o << Line("Byte Order", W("LITTLE_ENDIAN")) >>

ToolOutputs == {
    [dep |-> ToolHeader("float", <<Line("NoData", Num(-9999, TRUE))>>),
     tas |-> SampleBytes(F(-9999), "f4", "<") \o SampleBytes(F(1), "f4", "<")],
    [dep |-> ToolHeader("integer", <<Line("Nodata", Num(-9999, FALSE))>>),
     tas |-> SampleBytes(I(1), "i2", "<") \o SampleBytes(I(-9999), "i2", "<")],
    [dep |-> ToolHeader("float", <<>>),
     tas |-> SampleBytes(F(1), "f4", "<") \o SampleBytes(F(2), "f4", "<")] }

-----------------------------------------------------------------------------
(* One call of a tool through the wrapper *)

Init ==
    /\ pc = "call"
    /\ native = "<"
    /\ files = NoFiles
    /\ kwargs \in CallKwargs
    /\ load_afterwards = <<>>
    /\ fnames = <<>>
    /\ staged = <<>>
    /\ tool = NotCalled
    /\ ret = None
    /\ arg = kwargs

\* load_later, kwargs = xarray_whitebox_io(func, **kwargs)
Call ==
    /\ pc = "call"
    /\ \E st \in {xarray_whitebox_io(files, WHITEBOX_TEMP_DIR, native, kwargs)} :
           /\ files' = st.fs
           /\ staged' = st.staged
           /\ kwargs' = st.kwargs
           /\ load_afterwards' = st.load_afterwards
           /\ fnames' = st.fnames
           /\ ret' = IF st.err = "" THEN None ELSE Raise(st.err)
           /\ pc' = IF st.err = "" THEN "staged" ELSE "raised"
    /\ UNCHANGED <<native, tool, arg>>

\* The paths the rewritten parameters name as outputs, as the tool resolves them.
ToolOutputPaths(kw) ==
    LET outs == SelectSeq(kw, LAMBDA e : e[1] \in OUTPUT_ARGS /\ e[2].kind = "str")
    IN  UNION {{AbsPath(q) : q \in {Split(outs[j][2].s)[m] :
                                       m \in 1..Len(Split(outs[j][2].s))}}
               : j \in 1..Len(outs)}

ToolWrite(fs, paths, out) ==
    LET deps == {q \in paths : EndsWithDep(q)}
        tass == {Front(q) \o <<".tas">> : q \in deps}
    IN  [q \in (DOMAIN fs) \cup deps \cup tass |->
            IF q \in deps THEN out.dep
            ELSE IF q \in tass THEN out.tas ELSE fs[q]]

\* ret_val = func(**kwargs): the tool runs to its end and returns a status code;
\* it writes its outputs or fails to.
Invoke ==
    /\ pc = "staged"
    /\ \E code \in {0, 1} :
         /\ tool' = [called |-> TRUE, kwargs |-> kwargs, fs |-> DOMAIN files,
                     code |-> code]
         /\ \/ files' = files
            \/ \E out \in ToolOutputs :
                 files' = ToolWrite(files, ToolOutputPaths(kwargs), out)
    /\ pc' = "returned"
    /\ UNCHANGED <<native, kwargs, load_afterwards, fnames, staged, ret, arg>>

\* result = load_later(ret_val)
Load ==
    /\ pc = "returned"
    /\ \E r \in {delayed_load_later(files, native, kwargs, load_afterwards,
                                      fnames, tool.code)} :
           /\ files' = r.fs
           /\ ret' = [err |-> r.err, val |-> r.val]
           /\ pc' = IF r.err = "" THEN "done" ELSE "raised"
    /\ UNCHANGED <<native, kwargs, load_afterwards, fnames, staged, tool, arg>>

Next == Call \/ Invoke \/ Load

Spec == Init /\ [][Next]_vars

-----------------------------------------------------------------------------
(* Properties of one call through the wrapper (specification Spec) *)

OrigParams == ODel(arg, "delete_tempdir")
DeleteAsked == ~OHas(arg, "delete_tempdir") \/ OGet(arg, "delete_tempdir").b
StagedSet == {staged[j] : j \in 1..Len(staged)}
NoOutputGiven == OKeys(OrigParams) \cap OUTPUT_ARGS = {}
BodyOf(dep) == Front(dep) \o <<".tas">>
Returned == IF pc = "done" /\ DOMAIN ret.val = {"arr"} THEN {ret.val.arr}
            ELSE IF pc = "done" /\ DOMAIN ret.val = {"dset"}
            THEN {ret.val.dset[k] : k \in DOMAIN ret.val.dset}
            ELSE {}

\* C1: once delayed_load_later has returned from a call that staged at least
\* one array (and did not ask to keep the files), no header or body file
\* written during staging is left on disk.
C1_StagedPairsDeleted ==
    (pc = "done" /\ staged # <<>> /\ DeleteAsked)
        => \A p \in StagedSet : p \notin DOMAIN files

\* C2: when the external tool is invoked, every array input has been staged:
\* its parameter names header paths written by the staging, and each header and
\* its body are on disk; and until the tool has been invoked nothing has been
\* loaded back and every staged file is still on disk.
C2_StagedBeforeInvoke ==
    /\ tool.called =>
         \A j \in 1..Len(OrigParams) :
           LET k == OrigParams[j][1]
               v == OrigParams[j][2]
               w == OGet(tool.kwargs, k)
           IN  (k \in INPUT_ARGS /\ v.kind \in {"arr", "dset"}) =>
                 /\ w.kind = "str"
                 /\ (v.kind = "arr" \/ v.vars # <<>>) =>
                      /\ Len(Split(w.s)) = (IF v.kind = "arr" THEN 1 ELSE Len(v.vars))
                      /\ \A m \in 1..Len(Split(w.s)) :
                           LET q == Split(w.s)[m]
                           IN  /\ q \in StagedSet
                               /\ EndsWithDep(q)
                               /\ q \in tool.fs
                               /\ BodyOf(q) \in tool.fs
    /\ ~tool.called =>
         /\ Returned = {}
         /\ pc # "done"
         /\ \A p \in StagedSet : p \in DOMAIN files

\* A finished call that staged a single array and a collection of two.
C2_Witness ==
    /\ pc = "done"
    /\ tool.called
    /\ \E j \in 1..Len(OrigParams) : OrigParams[j][2].kind = "arr"
    /\ \E j \in 1..Len(OrigParams) :
         OrigParams[j][2].kind = "dset" /\ Len(OrigParams[j][2].vars) = 2

\* C3: without an output parameter and with at least one array staged, exactly
\* one output is registered, its path is the last staged header path X.dep
\* turned into X-output.dep, and the tool receives that path as `output`; with
\* an output parameter given, the registered outputs are the given ones and the
\* tool's output parameters are untouched.
C3_DefaultOutput ==
    pc \in {"staged", "returned", "done"} =>
      /\ (NoOutputGiven /\ staged # <<>>) =>
           LET expected == Front(staged[Len(staged) - 1]) \o <<"-output", ".dep">>
           IN  /\ Len(load_afterwards) = 1
               /\ load_afterwards[1][2] = expected
               /\ OHas(kwargs, "output")
               /\ OGet(kwargs, "output") = StrVal(expected)
      /\ ~NoOutputGiven =>
           /\ \A j \in 1..Len(load_afterwards) :
                /\ load_afterwards[j][1] \in OKeys(OrigParams) \cap OUTPUT_ARGS
                /\ load_afterwards[j][2]
                     = fix_path(OGet(OrigParams, load_afterwards[j][1]).s)
           /\ \A k \in OUTPUT_ARGS :
                OHas(kwargs, k) => OHas(OrigParams, k) /\ OGet(kwargs, k) = OGet(OrigParams, k)

\* C4: with delete_tempdir = False every staged header and body file still
\* exists after delayed_load_later has returned.
C4_KeptWhenDeleteTempdirFalse ==
    (pc = "done" /\ staged # <<>> /\ ~DeleteAsked)
        => \A p \in StagedSet : p \in DOMAIN files

\* C5: in a record delayed_load_later returns whose header declares a Nodata
\* value, every sample equal to that value is the missing-value marker and
\* every other sample is the one in the body file.
C5_NodataMasked ==
    \A a \in Returned :
      (Has(a.attrs, "Nodata") /\ IsNumeral(a.attrs["Nodata"])) =>
        LET onDisk == from_dep(files, a.attrs["filename"].pair[1], native).val.values
        IN  \A r \in 1..Len(onDisk) : \A c \in 1..Len(onDisk[r]) :
              IF NumOf(onDisk[r][c]) = a.attrs["Nodata"].n
              THEN a.values[r][c] = NaN
              ELSE PyEq(a.values[r][c], onDisk[r][c])

\* C10: the arrays staged by one call are written to pairwise distinct paths,
\* and the pairs recorded for cleanup name no file twice.
C10_DistinctStagedPaths ==
    /\ \A x, y \in 1..Len(staged) : x # y => staged[x] # staged[y]
    /\ LET del == FnamePaths(fnames)
       IN  \A x, y \in 1..Len(del) : x # y => del[x] # del[y]

-----------------------------------------------------------------------------
(* case_insensitive_attrs on its own (specification SpecAttrs) *)

DataScaleWords == {"continuous", "Continuous", "CONTINUOUS", "categorical",
                   "CATEGORICAL", "boolean", "Boolean", "BOOLEAN", "rgb", "RGB",
                   "Rgb", "nominal", "NOMINAL", ""}

UnitChoices == {
    << <<"z_units", W("M")>>, <<"xy_units", W("M")>> >>,
    << <<"units", W("m")>> >>,
    << <<"xy_units", W("M")>> >> }

AttrInputs ==
    {[typ |-> typ,
      attrs |-> Without(FullAttrs, {"z_units", "xy_units", "data_scale"})
                  \o units \o <<(<<dskey, W(ds)>>)>> \o pal \o nonlin] :
        typ \in {"float", "integer"},
        units \in UnitChoices,
        dskey \in {"data_scale", "Data Scale"},
        ds \in DataScaleWords,
        pal \in {<<>>, <<(<<"preferred_palette", W("spectrum.pal")>>)>>},
        nonlin \in {<<>>, <<(<<"palette_nonlinearity", F(2)>>)>>}}

InitAttrs ==
    /\ pc = "attrs"
    /\ native = "<"
    /\ files = NoFiles
    /\ kwargs = <<>>
    /\ load_afterwards = <<>>
    /\ fnames = <<>>
    /\ staged = <<>>
    /\ tool = NotCalled
    /\ ret = None
    /\ arg \in AttrInputs

\* attrs = case_insensitive_attrs(arr.attrs, typ_str)
Normalize ==
    /\ pc = "attrs"
    /\ ret' = case_insensitive_attrs(arg.attrs, arg.typ)
    /\ pc' = "normalized"
    /\ UNCHANGED <<native, files, kwargs, load_afterwards, fnames, staged, tool, arg>>

NextAttrs == Normalize

SpecAttrs == InitAttrs /\ [][NextAttrs]_vars

\* The attribute names given, as the normalizer reads them.
GivenKeys == {_lower_key(arg.attrs[j][1]) : j \in 1..Len(arg.attrs)}
Given(key) ==
    arg.attrs[CHOOSE j \in 1..Len(arg.attrs) : _lower_key(arg.attrs[j][1]) = key][2]
HasRequired ==
    (REQUIRED_DEP_FIELDS \ {"dtype"})
        \subseteq (GivenKeys \cup (IF "units" \in GivenKeys
                                   THEN {"xy_units", "z_units"} ELSE {}))

\* C8: with every required field given, a data_scale of continuous,
\* categorical or boolean in any letter case normalizes without error, rgb in
\* any letter case raises NotImplementedError, and any other value raises
\* ValueError.
C8_DataScaleValidation ==
    (pc = "normalized" /\ HasRequired) =>
      LET ds == PyLower(Given("data_scale")).w
      IN  /\ ds \in {"continuous", "categorical", "boolean"} => ret.err = ""
          /\ ds = "rgb" => ret.err = "NotImplementedError"
          /\ ds \notin {"continuous", "categorical", "boolean", "rgb"}
               => ret.err = "ValueError"

\* C9: after a normalization that succeeds, palette_nonlinearity is 1.0 when
\* none was given and the given value when one was, whether or not
\* preferred_palette was given.
C9_PaletteDefaults ==
    (pc = "normalized" /\ ret.err = "") =>
      IF "palette_nonlinearity" \in GivenKeys
      THEN ret.val["palette_nonlinearity"] = Given("palette_nonlinearity")
      ELSE PyEq(ret.val["palette_nonlinearity"], F(1))

-----------------------------------------------------------------------------
(* data_array_to_dep then from_dep (specification SpecCodec) *)

MaxCells == 2       \* cells of a grid of the round trip

SampleChoices == [d \in {"float32", "float64", "int16", "int64"} |->
    CASE d = "float32" -> {F(1), F(-9999)}
      [] d = "float64" -> {F(1), F(16777217)}
      [] d = "int16" -> {I(1), I(-9999)}
      [] d = "int64" -> {I(1), I(40000)}]

\* The grids of at most MaxCells cells, one row or one column.
Grids(d) ==
    UNION {{[r \in 1..1 |-> row] : row \in [1..n -> SampleChoices[d]]}
           \cup {[r \in 1..n |-> [c \in 1..1 |-> col[r]]] :
                   col \in [1..n -> SampleChoices[d]]}
           : n \in 1..MaxCells}

Required == << <<"min", F(0)>>, <<"max", F(10)>>, <<"north", F(5)>>,
               <<"south", F(0)>>, <<"east", F(0)>>, <<"west", F(5)>> >>

\* Valid attributes: every required field, any choice of the optional ones.
CodecArrays ==
    {[dtype |-> d, ndim |-> 2, values |-> g,
      attrs |-> Required
                \o << <<"cols", I(Len(g[1]))>>, <<"rows", I(Len(g))>>,
                      <<"z_units", W(u)>>, <<"xy_units", W(u)>>,
                      <<"data_scale", W(ds)>> >>
                \o stacks \o display \o meta] :
        d \in {"float32", "float64", "int16", "int64"},
        g \in UNION {Grids(e) : e \in {"float32", "float64", "int16", "int64"}},
        u \in {"M", "m"},
        ds \in {"continuous", "CONTINUOUS"},
        stacks \in {<<>>, <<(<<"stacks", I(1)>>)>>},
        display \in {<<>>, << <<"display_min", F(0)>>, <<"display_max", F(10)>> >>},
        meta \in {<<>>, <<(<<"metadata_entry", W("NOTE")>>)>>}}

StagedAs == "x"

InitCodec ==
    /\ pc = "encode"
    /\ native \in {"<", ">"}
    /\ files = NoFiles
    /\ kwargs = <<>>
    /\ load_afterwards = <<>>
    /\ fnames = <<>>
    /\ staged = <<>>
    /\ tool = NotCalled
    /\ ret = None
    /\ arg \in {a \in CodecArrays : a.values \in Grids(a.dtype)}

\* dep, tas = data_array_to_dep(arr, tag=...)
Encode ==
    /\ pc = "encode"
    /\ \E r \in {data_array_to_dep(files, WHITEBOX_TEMP_DIR, native, arg, StagedAs)} :
         /\ files' = r.fs
         /\ staged' = IF r.err = "" THEN r.val ELSE <<>>
         /\ ret' = [err |-> r.err, val |-> r.val]
         /\ pc' = IF r.err = "" THEN "decode" ELSE "raised"
    /\ UNCHANGED <<native, kwargs, load_afterwards, fnames, tool, arg>>

\* arr2 = from_dep(dep)
Decode ==
    /\ pc = "decode"
    /\ \E r \in {from_dep(files, staged[1], native)} :
         /\ ret' = r
         /\ pc' = IF r.err = "" THEN "decoded" ELSE "raised"
    /\ UNCHANGED <<native, files, kwargs, load_afterwards, fnames, staged, tool, arg>>

NextCodec == Encode \/ Decode

SpecCodec == InitCodec /\ [][NextCodec]_vars

SameGrid(g, h) ==
    /\ Len(g) = Len(h)
    /\ \A r \in 1..Len(g) :
         /\ Len(g[r]) = Len(h[r])
         /\ \A c \in 1..Len(g[r]) : PyEq(g[r][c], h[r][c])

\* C6: for valid attributes and a grid of the declared shape, writing the pair
\* and reading it back succeeds, returns the grid that was written, and
\* returns every required header field with the value that was supplied.
C6_RoundTrip ==
    pc \in {"decoded", "raised"} =>
      /\ pc = "decoded"
      /\ SameGrid(ret.val.values, arg.values)
      /\ \A t \in 1..Len(DEP_TEMPLATE) :
           LET field == DEP_TEMPLATE[t][2]
           IN  (field \in REQUIRED_DEP_FIELDS \ {"dtype"}) =>
                 /\ Has(ret.val.attrs, DEP_TEMPLATE[t][1])
                 /\ PyEq(ret.val.attrs[DEP_TEMPLATE[t][1]], Given(field))
      /\ Has(ret.val.attrs, "Data Type")
      /\ ret.val.attrs["Data Type"] = W(_get_dtype(W(arg.dtype))[1])

-----------------------------------------------------------------------------
(* from_dep on a big-endian and on a little-endian body (SpecEndian) *)

EndianSamples == [d \in {"float", "integer"} |->
    IF d = "float" THEN {F(0), F(1), F(2), F(-9999)}
    ELSE {I(0), I(1), I(-9999), I(258)}]

BigDep == <<"/", "data", "/", "big", ".dep">>
LittleDep == <<"/", "data", "/", "little", ".dep">>

EndianHeader(d, cols, order) ==
    << Line("Min", Num(-9999, TRUE)), Line("Max", Num(258, TRUE)),
       Line("North", Num(5, TRUE)), Line("South", Num(0, TRUE)),
       Line("East", Num(0, TRUE)), Line("West", Num(5, TRUE)),
       Line("Cols", Num(cols, FALSE)), Line("Rows", Num(1, FALSE)),
       Line("Data Type", W(d)), Line("Z Units", W("m")),
       Line("Xy Units", W("m")), Line("Data Scale", W("continuous")) >>
    \o order

\* The same samples as a big-endian pair and as a little-endian pair whose
\* header declares LITTLE_ENDIAN or no byte order.
EndianFiles(d, cells, decl) ==
    LET dt == DTYPES[d]
        body(order) == Flatten([k \in 1..Len(cells) |-> SampleBytes(cells[k], dt, order)])
    IN  (BigDep :> EndianHeader(d, Len(cells), <<Line("Byte Order", W("BIG_ENDIAN"))>>))
        @@ (BodyOf(BigDep) :> body(">"))
        @@ (LittleDep :> EndianHeader(d, Len(cells), decl))
        @@ (BodyOf(LittleDep) :> body("<"))

EndianInputs ==
    {[dtype |-> d, cells |-> cells, decl |-> decl] :
        d \in {"float", "integer"},
        cells \in UNION {UNION {[1..n -> EndianSamples[e]] : n \in 1..MaxCells}
                         : e \in {"float", "integer"}},
        decl \in {<<>>, <<Line("Byte Order", W("LITTLE_ENDIAN"))>>}}

InitEndian ==
    /\ pc = "read"
    /\ native \in {"<", ">"}
    /\ arg \in {x \in EndianInputs :
                  \A k \in 1..Len(x.cells) : x.cells[k] \in EndianSamples[x.dtype]}
    /\ files = EndianFiles(arg.dtype, arg.cells, arg.decl)
    /\ kwargs = <<>>
    /\ load_afterwards = <<>>
    /\ fnames = <<>>
    /\ staged = <<>>
    /\ tool = NotCalled
    /\ ret = [big |-> None, little |-> None]

\* big = from_dep(big_dep)
ReadBig ==
    /\ pc = "read"
    /\ ret.big = None
    /\ ret' = [ret EXCEPT !.big = from_dep(files, BigDep, native)]
    /\ pc' = IF ret.little = None THEN "read" ELSE "compared"
    /\ UNCHANGED <<native, files, kwargs, load_afterwards, fnames, staged, tool, arg>>

\* little = from_dep(little_dep)
ReadLittle ==
    /\ pc = "read"
    /\ ret.little = None
    /\ ret' = [ret EXCEPT !.little = from_dep(files, LittleDep, native)]
    /\ pc' = IF ret.big = None THEN "read" ELSE "compared"
    /\ UNCHANGED <<native, files, kwargs, load_afterwards, fnames, staged, tool, arg>>

NextEndian == ReadBig \/ ReadLittle

SpecEndian == InitEndian /\ [][NextEndian]_vars

\* C7: a big-endian body under a header declaring BIG_ENDIAN and the
\* byte-swapped body under a header declaring LITTLE_ENDIAN or no byte order
\* are both read, and read to the same samples.
C7_EndianAgree ==
    pc = "compared" =>
      /\ ret.big.err = ""
      /\ ret.little.err = ""
      /\ ret.big.val.values = ret.little.val.values

=============================================================================
